---- MODULE Spec2Model ----
(***************************************************************************)
(* Model of the two cloudmarker plugins:                                   *)
(*   - cloudmarker/alerts/emailalert.py  (EmailAlert: write, done,         *)
(*     _prepare_smtp_session), specification SpecSink;                     *)
(*   - cloudmarker/events/azlogprofilemissingactivitytypeevent.py          *)
(*     (AzLogProfileMissingActivityTypeEvent: eval, done), specification   *)
(*     SpecEval.                                                           *)
(*                                                                         *)
(* Python values are represented as follows.  A value whose type can vary  *)
(* is a one-field record named after its type: None, [str |-> tokens],     *)
(* [int |-> n], [list |-> elements], [dict |-> items].  A str is the       *)
(* sequence of its atomic tokens, so that concatenation is \o and a        *)
(* formatted string is the sequence of its pieces.  A dict is the sequence *)
(* of its <<key, value>> items in iteration (insertion) order, keys        *)
(* distinct.  The list fields self.stringbuffer and self.to are plain      *)
(* sequences.                                                              *)
(***************************************************************************)
EXTENDS Integers, Sequences, FiniteSets, TLC

VARIABLES
    sink,          \* sink[s]: the fields of EmailAlert instance s
    ctor,          \* ctor[s]: the arguments instance s was constructed with
    written,       \* written[s]: the records passed to write(), in call order
    message,       \* message[s]: the message built by the latest done()
    session,       \* session[s]: state of the SMTP session of the latest done()
    transportLog,  \* transportLog[s]: smtplib calls made by the latest done()
    outcome,       \* outcome[s]: how the latest done() ended
    logged,        \* logged[s]: _log.error calls made by the latest done()
    doneCalls,     \* doneCalls[s]: number of done() calls started
    call,          \* the call the (single-threaded) caller is currently inside
    record,        \* the record last given to eval()
    events,        \* the event records the generator yielded for it
    evalOutcome,   \* how consuming the generator ended
    evalCalls,     \* number of eval() calls on the evaluator
    evalDoneCalls  \* number of done() calls on the evaluator

sinkVars == <<sink, ctor, written, message, session, transportLog, outcome,
              logged, doneCalls, call>>
evalVars == <<record, events, evalOutcome, evalCalls, evalDoneCalls>>
vars == <<sinkVars, evalVars>>

(***************************************************************************)
(* Bounds.                                                                 *)
(***************************************************************************)
MaxWrites == 2
MaxDone == 2
MaxEvalCalls == 2
MaxCategories == 3

(***************************************************************************)
(* Python values.                                                          *)
(***************************************************************************)
None == [none |-> TRUE]

Text(tokens) == [str |-> tokens]

Str(tok) == Text(<<tok>>)

PyInt(n) == [int |-> n]

List(elements) == [list |-> elements]

Dict(items) == [dict |-> items]

IsStr(v) == DOMAIN v = {"str"}

IsInt(v) == DOMAIN v = {"int"}

IsDict(v) == DOMAIN v = {"dict"}

IsList(v) == DOMAIN v = {"list"}

RECURSIVE ConcatTokens(_)
ConcatTokens(parts) ==
    IF parts = <<>> THEN <<>>
    ELSE Head(parts).str \o ConcatTokens(Tail(parts))

\* ''.join(parts)
Concat(parts) == Text(ConcatTokens(parts))

Digit(d) == CASE d = 0 -> "0" [] d = 1 -> "1" [] d = 2 -> "2" [] d = 3 -> "3"
              [] d = 4 -> "4" [] d = 5 -> "5" [] d = 6 -> "6" [] d = 7 -> "7"
              [] d = 8 -> "8" [] d = 9 -> "9"

RECURSIVE ReprNat(_)
ReprNat(n) ==
    IF n < 10 THEN <<Digit(n)>> ELSE ReprNat(n \div 10) \o <<Digit(n % 10)>>

\* repr(value) for the values a written record holds
Repr(value) ==
    IF value = None THEN Text(<<"None">>)
    ELSE IF IsInt(value) THEN Text(ReprNat(value.int))
    ELSE Text(<<"'">> \o value.str \o <<"'">>)

(***************************************************************************)
(* EmailAlert (cloudmarker/alerts/emailalert.py).                          *)
(***************************************************************************)
\* the records the caller may pass to write(): items in iteration order
WriteItems ==
    { <<>>,
      << <<"a", PyInt(1)>> >>,
      << <<"b", PyInt(2)>> >>,
      << <<"b", PyInt(1)>> >>,
      << <<"a", Str("x")>>, <<"b", None>> >>,
      << <<"b", PyInt(12)>>, <<"a", PyInt(1)>> >> }

WriteRecords == { Dict(items) : items \in WriteItems }

\* the constructor arguments the model draws from
CtorArgs ==
    [ host : {Str("smtp.example.com")},
      port : {465},
      subject : {Str("alert")},
      to : {<<Str("a@example.com"), Str("b@example.com")>>},
      sender : {Str("cm@example.com")},
      body : {Str("default"), Str("1")},
      use_ssl : BOOLEAN,
      credentials : {<<None, None>>, <<Str("user"), Str("secret")>>} ]

\* EmailAlert.__init__
NewSink(a) ==
    [ host |-> a.host,
      port |-> a.port,
      subject |-> a.subject,
      to |-> a.to,
      sender |-> a.sender,
      body |-> a.body,
      stringbuffer |-> <<>>,
      use_ssl |-> a.use_ssl,
      username |-> a.credentials[1],
      password |-> a.credentials[2] ]

RECURSIVE AppendValuesPrepending(_, _)
\* a write that puts each new fragment in front of the buffer
AppendValuesPrepending(buffer, items) ==
    IF items = <<>> THEN buffer
    ELSE AppendValuesPrepending(<<Repr(Head(items)[2])>> \o buffer, Tail(items))

RECURSIVE AppendValues(_, _)
\* for _, value in record.items(): self.stringbuffer.append(repr(value))
AppendValues(buffer, items) ==
    IF items = <<>> THEN buffer
    ELSE AppendValues(Append(buffer, Repr(Head(items)[2])), Tail(items))

\* a done() that joins the buffer without the emptiness test
BodyAtDoneNoFallback(stringbuffer, body) == Concat(stringbuffer)

\* if self.stringbuffer: self.body = ''.join(self.stringbuffer)
BodyAtDone(stringbuffer, body) ==
    IF stringbuffer # <<>> THEN Concat(stringbuffer) ELSE body

RECURSIVE JoinTokens(_, _)
JoinTokens(sep, parts) ==
    IF parts = <<>> THEN <<>>
    ELSE IF Len(parts) = 1 THEN Head(parts).str
    ELSE Head(parts).str \o sep.str \o JoinTokens(sep, Tail(parts))

\* sep.join(parts)
Join(sep, parts) == Text(JoinTokens(sep, parts))

COMMASPACE == Str(", ")

Idle == [s |-> 0, pc |-> "idle", exc |-> "none"]

TotalWrites == LET RECURSIVE Sum(_)
                   Sum(S) == IF S = {} THEN 0
                             ELSE LET x == CHOOSE y \in S : TRUE
                                  IN Len(written[x]) + Sum(S \ {x})
               IN Sum(DOMAIN written)

TotalDone == LET RECURSIVE Sum(_)
                 Sum(S) == IF S = {} THEN 0
                           ELSE LET x == CHOOSE y \in S : TRUE
                                IN doneCalls[x] + Sum(S \ {x})
             IN Sum(DOMAIN doneCalls)

InitSinks(ids) ==
    /\ ctor \in [ids -> CtorArgs]
    /\ sink = [s \in ids |-> NewSink(ctor[s])]
    /\ written = [s \in ids |-> <<>>]
    /\ message = [s \in ids |-> None]
    /\ session = [s \in ids |-> "Unconnected"]
    /\ transportLog = [s \in ids |-> <<>>]
    /\ outcome = [s \in ids |-> "none"]
    /\ logged = [s \in ids |-> 0]
    /\ doneCalls = [s \in ids |-> 0]
    /\ call = Idle

\* a write into a buffer that all instances share
WriteSharedBuffer(s, rec) ==
    /\ call.pc = "idle"
    /\ TotalWrites < MaxWrites
    /\ sink' = [t \in DOMAIN sink |->
                   [sink[t] EXCEPT !.stringbuffer = AppendValues(@, rec.dict)]]
    /\ written' = [written EXCEPT ![s] = Append(@, rec)]
    /\ UNCHANGED <<ctor, message, session, transportLog, outcome, logged,
                   doneCalls, call, evalVars>>

\* a write that also opens the transport
WriteConnecting(s, rec) ==
    /\ call.pc = "idle"
    /\ TotalWrites < MaxWrites
    /\ sink' = [sink EXCEPT ![s].stringbuffer = AppendValues(@, rec.dict)]
    /\ written' = [written EXCEPT ![s] = Append(@, rec)]
    /\ session' = [session EXCEPT ![s] = "Connected"]
    /\ transportLog' = [transportLog EXCEPT ![s] =
                           Append(@, [op |-> "connect", result |-> "ok"])]
    /\ UNCHANGED <<ctor, message, outcome, logged, doneCalls, call, evalVars>>

\* EmailAlert.write(record)
Write(s, rec) ==
    /\ call.pc = "idle"
    /\ TotalWrites < MaxWrites
    /\ sink' = [sink EXCEPT ![s].stringbuffer = AppendValues(@, rec.dict)]
    /\ written' = [written EXCEPT ![s] = Append(@, rec)]
    /\ UNCHANGED <<ctor, message, session, transportLog, outcome, logged,
                   doneCalls, call, evalVars>>

\* EmailAlert.done(), lines 71-80: build the message and its body; no
\* statement of done() assigns self.stringbuffer
DoneBuild(s) ==
    /\ call.pc = "idle"
    /\ TotalDone < MaxDone
    /\ LET body == BodyAtDone(sink[s].stringbuffer, sink[s].body)
       IN /\ sink' = [sink EXCEPT ![s].body = body]
          /\ message' = [message EXCEPT ![s] =
                            [ Subject |-> sink[s].subject,
                              From |-> sink[s].sender,
                              To |-> Join(COMMASPACE, sink[s].to),
                              Body |-> body ]]
    /\ session' = [session EXCEPT ![s] = "Unconnected"]
    /\ transportLog' = [transportLog EXCEPT ![s] = <<>>]
    /\ outcome' = [outcome EXCEPT ![s] = "running"]
    /\ logged' = [logged EXCEPT ![s] = 0]
    /\ doneCalls' = [doneCalls EXCEPT ![s] = @ + 1]
    /\ call' = [s |-> s, pc |-> "connect", exc |-> "none"]
    /\ UNCHANGED <<ctor, written, evalVars>>

\* what a call into smtplib can do: return, raise an smtplib.SMTPException,
\* or raise an exception that is not one (socket level)
TransportResults == {"ok", "SMTPException", "OSError"}

\* except smtplib.SMTPException as e: (line 85)
Caught(exc) == exc = "SMTPException"

LogCall(s, op, r) ==
    transportLog' = [transportLog EXCEPT ![s] =
                        Append(@, [op |-> op, result |-> r])]

\* a session acquisition that never logs in
ConnectSkippingLogin(s, r) ==
    /\ call.s = s /\ call.pc = "connect"
    /\ transportLog' = [transportLog EXCEPT ![s] =
                           Append(@, [op |-> "connect", result |-> r])]
    /\ IF r = "ok"
       THEN /\ session' = [session EXCEPT ![s] = "Connected"]
            /\ call' = [call EXCEPT !.pc = "sendmail"]
            /\ UNCHANGED outcome
       ELSE /\ outcome' = [outcome EXCEPT ![s] = "raised"]
            /\ call' = Idle
            /\ UNCHANGED session
    /\ UNCHANGED <<sink, ctor, written, message, logged, doneCalls, evalVars>>

\* _prepare_smtp_session, lines 110-111 and 115: smtplib.SMTP_SSL(...) or
\* smtplib.SMTP(...); done() calls it outside its try statement (line 82)
Connect(s, r) ==
    /\ call.s = s /\ call.pc = "connect"
    /\ LogCall(s, "connect", r)
    /\ IF r = "ok"
       THEN /\ session' = [session EXCEPT ![s] = "Connected"]
            /\ call' = [call EXCEPT !.pc = IF sink[s].use_ssl THEN "login"
                                           ELSE "sendmail"]
            /\ UNCHANGED outcome
       ELSE /\ outcome' = [outcome EXCEPT ![s] = "raised"]
            /\ call' = Idle
            /\ UNCHANGED session
    /\ UNCHANGED <<sink, ctor, written, message, logged, doneCalls, evalVars>>

\* _prepare_smtp_session, lines 112-114: smtp.login(self.username,
\* self.password), still outside the try statement of done()
Login(s, r) ==
    /\ call.s = s /\ call.pc = "login"
    /\ LogCall(s, "login", r)
    /\ IF r = "ok"
       THEN /\ session' = [session EXCEPT ![s] = "Authenticated"]
            /\ call' = [call EXCEPT !.pc = "sendmail"]
            /\ UNCHANGED outcome
       ELSE /\ outcome' = [outcome EXCEPT ![s] = "raised"]
            /\ call' = Idle
            /\ UNCHANGED session
    /\ UNCHANGED <<sink, ctor, written, message, logged, doneCalls, evalVars>>

\* a send step that tries once more after a first SMTPException
SendmailRetrying(s, r) ==
    /\ call.s = s /\ call.pc = "sendmail"
    /\ transportLog' = [transportLog EXCEPT ![s] =
                           Append(@, [op |-> "sendmail", result |-> r])]
    /\ logged' = [logged EXCEPT ![s] = IF Caught(r) THEN @ + 1 ELSE @]
    /\ call' = [call EXCEPT
                   !.pc = IF Caught(r) /\ logged[s] = 0 THEN "sendmail" ELSE "quit",
                   !.exc = IF r = "ok" \/ Caught(r) THEN "none" ELSE r]
    /\ UNCHANGED <<sink, ctor, written, message, session, outcome, doneCalls,
                   evalVars>>

\* done(), lines 83-86: smtp.sendmail(...) inside try / except SMTPException
Sendmail(s, r) ==
    /\ call.s = s /\ call.pc = "sendmail"
    /\ LogCall(s, "sendmail", r)
    /\ logged' = [logged EXCEPT ![s] = IF Caught(r) THEN @ + 1 ELSE @]
    /\ call' = [call EXCEPT !.pc = "quit",
                            !.exc = IF r = "ok" \/ Caught(r) THEN "none" ELSE r]
    /\ UNCHANGED <<sink, ctor, written, message, session, outcome, doneCalls,
                   evalVars>>

\* done(), lines 87-88: finally: smtp.quit(); then done() returns, or the
\* exception in flight (from sendmail or from quit itself) leaves done()
Quit(s, r) ==
    /\ call.s = s /\ call.pc = "quit"
    /\ LogCall(s, "quit", r)
    /\ session' = [session EXCEPT ![s] = "Closed"]
    /\ outcome' = [outcome EXCEPT ![s] =
                      IF r = "ok" /\ call.exc = "none" THEN "returned"
                      ELSE "raised"]
    /\ call' = Idle
    /\ UNCHANGED <<sink, ctor, written, message, logged, doneCalls, evalVars>>

(***************************************************************************)
(* AzLogProfileMissingActivityTypeEvent                                    *)
(* (cloudmarker/events/azlogprofilemissingactivitytypeevent.py).           *)
(***************************************************************************)
RECURSIVE Lookup(_, _, _)
Lookup(items, key, default) ==
    IF items = <<>> THEN default
    ELSE IF Head(items)[1] = key THEN Head(items)[2]
    ELSE Lookup(Tail(items), key, default)

\* d.get(key, default)
GetOr(d, key, default) == Lookup(d.dict, key, default)

\* d.get(key)
Get(d, key) == GetOr(d, key, None)

\* x in container, for a list; None is not iterable (TypeError)
Contains(container, x) ==
    IF IsList(container)
    THEN IF \E i \in 1..Len(container.list) : container.list[i] = x
         THEN "True" ELSE "False"
    ELSE "TypeError"

RECURSIVE SetItem(_, _, _)
\* items after d[key] = value: an existing key keeps its position
SetItem(items, key, value) ==
    IF items = <<>> THEN << <<key, value>> >>
    ELSE IF Head(items)[1] = key THEN << <<key, value>> >> \o Tail(items)
    ELSE <<Head(items)>> \o SetItem(Tail(items), key, value)

RECURSIVE UpdateItems(_, _)
UpdateItems(items, more) ==
    IF more = <<>> THEN items
    ELSE UpdateItems(SetItem(items, Head(more)[1], Head(more)[2]), Tail(more))

\* util.merge_dicts(a, b): a new dict holding a's items updated with b's
MergeDicts(a, b) == Dict(UpdateItems(UpdateItems(<<>>, a.dict), b.dict))

\* the first argument of util.merge_dicts(a, b) as the call leaves it: the
\* merge is made into a copy
MergedArgumentAfter(a) == a

\* util.friendly_string(technical_string)
FriendlyString(technical_string) ==
    IF technical_string = Str("azure") THEN Str("Azure") ELSE technical_string

\* '{}'.format(value)
Format(value) == IF value = None THEN <<"None">> ELSE value.str

\* a record type that is not rewritten
EventRecordTypeOfInput == Str("log_profile")

EventRecordType == Str("log_profile_missing_activity_type_event")

\* an event construction that passes the record's ext on as it is
GetLogProfileActivityEventPlainExt(com, ext, missing_activity) ==
    LET friendly_cloud_type == FriendlyString(Get(com, "cloud_type"))
        reference == Get(com, "reference")
        description ==
            Text(Format(friendly_cloud_type) \o <<" log profile ">>
                 \o Format(reference) \o <<" has is not enabled for ">>
                 \o Format(missing_activity) \o <<" activity.">>)
        recommendation ==
            Text(<<"Check ">> \o Format(friendly_cloud_type)
                 \o <<" log profile ">> \o Format(reference)
                 \o <<" and enable for ">> \o Format(missing_activity)
                 \o <<" activity.">>)
    IN Dict(<< <<"ext", ext>>,
               <<"com", Dict(<< <<"cloud_type", Get(com, "cloud_type")>>,
                                <<"record_type", EventRecordType>>,
                                <<"reference", reference>>,
                                <<"description", description>>,
                                <<"recommendation", recommendation>> >>)>> >>)

\* _get_log_profile_activity_event(com, ext, missing_activity)
GetLogProfileActivityEvent(com, ext, missing_activity) ==
    LET friendly_cloud_type == FriendlyString(Get(com, "cloud_type"))
        reference == Get(com, "reference")
        description ==
            Text(Format(friendly_cloud_type) \o <<" log profile ">>
                 \o Format(reference) \o <<" has is not enabled for ">>
                 \o Format(missing_activity) \o <<" activity.">>)
        recommendation ==
            Text(<<"Check ">> \o Format(friendly_cloud_type)
                 \o <<" log profile ">> \o Format(reference)
                 \o <<" and enable for ">> \o Format(missing_activity)
                 \o <<" activity.">>)
    IN Dict(<< <<"ext", MergeDicts(ext,
                    Dict(<< <<"record_type", EventRecordType>> >>))>>,
               <<"com", Dict(<< <<"cloud_type", Get(com, "cloud_type")>>,
                                <<"record_type", EventRecordType>>,
                                <<"reference", reference>>,
                                <<"description", description>>,
                                <<"recommendation", recommendation>> >>)>> >>)

\* the activities in another order
ActivitiesReordered == <<Str("Action"), Str("Delete"), Str("Write")>>

\* activities = ('Write', 'Delete', 'Action')
Activities == <<Str("Write"), Str("Delete"), Str("Action")>>

RECURSIVE EvaluateFrom(_, _, _, _, _)
\* the loop of _evaluate_log_profile_for_activities from activity number i on,
\* yielded being the events yielded so far
EvaluateFrom(i, yielded, com, ext, raw) ==
    IF i > Len(Activities) THEN [events |-> yielded, outcome |-> "exhausted"]
    ELSE LET present == Contains(Get(raw, "categories"), Activities[i])
         IN IF present = "TypeError"
            THEN [events |-> yielded, outcome |-> "TypeError"]
            ELSE EvaluateFrom(i + 1,
                     IF present = "False"
                     THEN Append(yielded,
                              GetLogProfileActivityEvent(com, ext, Activities[i]))
                     ELSE yielded,
                     com, ext, raw)

\* _evaluate_log_profile_for_activities(com, ext, raw), fully consumed
EvaluateLogProfileForActivities(com, ext, raw) ==
    EvaluateFrom(1, <<>>, com, ext, raw)

NoEvents == [events |-> <<>>, outcome |-> "exhausted"]

\* an eval() without the record_type test
EvalAnyRecordType(rec) ==
    LET com == GetOr(rec, "com", Dict(<<>>))
        ext == GetOr(rec, "ext", Dict(<<>>))
        raw == GetOr(rec, "raw", Dict(<<>>))
    IN IF com = None THEN NoEvents
       ELSE IF Get(com, "cloud_type") # Str("azure") THEN NoEvents
       ELSE IF ext = None THEN NoEvents
       ELSE IF raw = None THEN NoEvents
       ELSE EvaluateLogProfileForActivities(com, ext, raw)

\* AzLogProfileMissingActivityTypeEvent.eval(record), fully consumed
Eval(rec) ==
    LET com == GetOr(rec, "com", Dict(<<>>))
        ext == GetOr(rec, "ext", Dict(<<>>))
        raw == GetOr(rec, "raw", Dict(<<>>))
    IN IF com = None THEN NoEvents
       ELSE IF Get(com, "cloud_type") # Str("azure") THEN NoEvents
       ELSE IF Get(com, "record_type") # Str("log_profile") THEN NoEvents
       ELSE IF ext = None THEN NoEvents
       ELSE IF raw = None THEN NoEvents
       ELSE EvaluateLogProfileForActivities(com, ext, raw)

\* the record given to eval() as the consumed generator leaves it: eval and
\* the functions below it hold no assignment to the record or to one of its
\* sections; the ext section is handed to util.merge_dicts once per event
InputAfterEval(rec) ==
    IF Eval(rec).events # <<>> /\ Lookup(rec.dict, "ext", None) # None
    THEN Dict(SetItem(rec.dict, "ext", MergedArgumentAfter(Get(rec, "ext"))))
    ELSE rec

\* the records the caller may pass to eval()
Absent == [absent |-> TRUE]

Opt(key, value) == IF value = Absent THEN <<>> ELSE << <<key, value>> >>

CategoryNames == {Str("Write"), Str("Delete"), Str("Action"), Str("Read")}

CategoryLists ==
    UNION { [1..n -> CategoryNames] : n \in 0..MaxCategories }

ComOptions ==
    {Absent, None} \cup
    { Dict(Opt("cloud_type", c) \o Opt("record_type", t) \o Opt("reference", r)) :
        c \in {Absent, Str("azure"), Str("gcp")},
        t \in {Absent, Str("log_profile"), Str("vm")},
        r \in {Absent, Str("/subscriptions/s1/logprofiles/default")} }

ExtOptions ==
    { Absent, None, Dict(<<>>),
      Dict(<< <<"location", Str("eastus")>> >>),
      Dict(<< <<"record_type", Str("log_profile")>>,
              <<"location", Str("eastus")>> >>) }

RawOptions ==
    {Absent, None, Dict(<<>>), Dict(<< <<"categories", None>> >>)} \cup
    { Dict(<< <<"categories", List(cs)>> >>) : cs \in CategoryLists }

EvalRecords ==
    { Dict(Opt("com", c) \o Opt("ext", e) \o Opt("raw", w)) :
        c \in ComOptions, e \in ExtOptions, w \in RawOptions }

NextSink ==
    \/ \E s \in DOMAIN sink, rec \in WriteRecords : Write(s, rec)
    \/ \E s \in DOMAIN sink : DoneBuild(s)
    \/ \E s \in DOMAIN sink, r \in TransportResults : Connect(s, r)
    \/ \E s \in DOMAIN sink, r \in TransportResults : Login(s, r)
    \/ \E s \in DOMAIN sink, r \in TransportResults : Sendmail(s, r)
    \/ \E s \in DOMAIN sink, r \in TransportResults : Quit(s, r)

InitEvalIdle ==
    /\ record = None
    /\ events = <<>>
    /\ evalOutcome = "none"
    /\ evalCalls = 0
    /\ evalDoneCalls = 0

InitSink == InitSinks({1}) /\ InitEvalIdle

SpecSink == InitSink /\ [][NextSink]_vars

\* two EmailAlert instances driven by one caller: a secure sink with
\* credentials and a plain sink without
InitPair ==
    /\ InitSinks({1, 2})
    /\ ctor[1].use_ssl /\ ctor[1].credentials[1] # None
    /\ ctor[1].body = Str("default")
    /\ ~ctor[2].use_ssl /\ ctor[2].credentials[1] = None
    /\ ctor[2].body = Str("1")
    /\ InitEvalIdle

SpecPair == InitPair /\ [][NextSink]_vars

\* the caller passes record to eval() and consumes the generator
EvalCall ==
    /\ evalCalls < MaxEvalCalls
    /\ LET result == Eval(record)
       IN /\ events' = result.events
          /\ evalOutcome' = result.outcome
    /\ record' = InputAfterEval(record)
    /\ evalCalls' = evalCalls + 1
    /\ UNCHANGED <<evalDoneCalls, sinkVars>>

\* AzLogProfileMissingActivityTypeEvent.done(): no statement
EvalDone ==
    /\ evalDoneCalls < MaxEvalCalls
    /\ evalDoneCalls' = evalDoneCalls + 1
    /\ UNCHANGED <<record, events, evalOutcome, evalCalls, sinkVars>>

NextEval == EvalCall \/ EvalDone

InitEval ==
    /\ record \in EvalRecords
    /\ events = <<>>
    /\ evalOutcome = "none"
    /\ evalCalls = 0
    /\ evalDoneCalls = 0
    /\ InitSinks({})

SpecEval == InitEval /\ [][NextEval]_vars

(***************************************************************************)
(* Properties of EmailAlert, checked under SpecSink.                       *)
(***************************************************************************)
Sinks == DOMAIN sink

\* done() on s has ended, by returning or by raising
Ended(s) == outcome[s] \in {"returned", "raised"}

\* the latest done() on s called op and smtplib answered with a result in rs
Called(s, op, rs) ==
    \E i \in 1..Len(transportLog[s]) :
        transportLog[s][i].op = op /\ transportLog[s][i].result \in rs

Failures == TransportResults \ {"ok"}

\* the fragments a sequence of written records stands for: the repr of every
\* top-level value, record by record, item by item
Renderings(records) ==
    LET RECURSIVE Flat(_)
        Flat(i) ==
            IF i > Len(records) THEN <<>>
            ELSE [j \in 1..Len(records[i].dict) |-> Repr(records[i].dict[j][2])]
                 \o Flat(i + 1)
    IN Flat(1)

\* C1: whenever the send step of a done() call failed, whatever the kind of
\* failure, that done() call returns normally and its session ends Closed.
C1_SendFailureIsolated ==
    \A s \in Sinks :
        (Ended(s) /\ Called(s, "sendmail", Failures))
            => (outcome[s] = "returned" /\ session[s] = "Closed")

\* C2: whenever opening the transport or the login step of a done() call
\* failed, the failure was logged and that done() call returns normally.
C2_AcquireFailureCaught ==
    \A s \in Sinks :
        (Ended(s) /\ (Called(s, "connect", Failures) \/ Called(s, "login", Failures)))
            => (outcome[s] = "returned" /\ logged[s] > 0)

\* C3: whenever a done() call has ended and its session had reached
\* Connected, the session is Closed.
C3_SessionReleased ==
    \A s \in Sinks :
        (Ended(s) /\ Called(s, "connect", {"ok"})) => session[s] = "Closed"

\* C4: a done() call attempts a login only on a sink that was constructed
\* with a username and a password.
C4_LoginOnlyWithCredentials ==
    \A s \in Sinks :
        Called(s, "login", TransportResults)
            => (ctor[s].credentials[1] # None /\ ctor[s].credentials[2] # None)

\* C5: the body of the message built by done() is the default body given at
\* construction when the records written so far hold no value at all, and
\* otherwise the concatenation of the renderings of all their values.
C5_DefaultBodyFallback ==
    \A s \in Sinks :
        (call.s = s /\ call.pc # "idle")
            => message[s].Body =
                   IF Renderings(written[s]) = <<>> THEN ctor[s].body
                   ELSE Concat(Renderings(written[s]))

\* C5 witness: a second done() on a sink that was only written empty mappings
\* has built a message whose body is the default body.
C5_Witness ==
    \E s \in Sinks :
        /\ call.s = s /\ call.pc # "idle" /\ doneCalls[s] = 2
        /\ written[s] # <<>> /\ Renderings(written[s]) = <<>>
        /\ message[s].Body = ctor[s].body

\* C6: in every state the accumulation buffer is the renderings of the values
\* of the records written so far, in write order and, within a record, in
\* iteration order.
C6_BufferAccumulationOrder ==
    \A s \in Sinks : sink[s].stringbuffer = Renderings(written[s])

\* C6 witness: after a done(), a record whose keys iterate as b, a was written
\* behind an earlier record and the buffer holds the four renderings in order.
C6_Witness ==
    \E s \in Sinks :
        /\ doneCalls[s] >= 1 /\ call.pc = "idle"
        /\ Len(written[s]) = 2
        /\ written[s][2] = Dict(<< <<"b", PyInt(12)>>, <<"a", PyInt(1)>> >>)
        /\ written[s][1] = Dict(<< <<"a", Str("x")>>, <<"b", None>> >>)
        /\ sink[s].stringbuffer =
               <<Text(<<"'", "x", "'">>), Text(<<"None">>),
                 Text(<<"1", "2">>), Text(<<"1">>)>>

\* C7: once a done() call has ended the accumulation buffer is empty.
C7_BufferClearedAtDone ==
    \A s \in Sinks : Ended(s) => sink[s].stringbuffer = <<>>

\* the sink is configured to authenticate and was given no credentials
Misconfigured(s) ==
    /\ ctor[s].use_ssl
    /\ ctor[s].credentials[1] = None /\ ctor[s].credentials[2] = None

\* C12: a sink that is configured to authenticate and was given no username
\* and password never reaches write() or done(): its construction fails.
C12_FailFastAtConstruction ==
    \A s \in Sinks : Misconfigured(s) => (written[s] = <<>> /\ doneCalls[s] = 0)

\* s is the buffer b with fragments appended
Extends(b, s) == Len(s) >= Len(b) /\ SubSeq(s, 1, Len(b)) = b

\* C13: a write call makes no transport call, leaves the delivery session as
\* it was (Unconnected before the first done()), and changes nothing of the
\* sink but the accumulation buffer, which it extends.
C13_WriteIsPureAccumulate ==
    [][\A s \in Sinks :
          written'[s] # written[s]
              => /\ transportLog' = transportLog
                 /\ session' = session
                 /\ (doneCalls[s] = 0 => session'[s] = "Unconnected")
                 /\ message' = message /\ outcome' = outcome
                 /\ logged' = logged /\ call' = call
                 /\ sink' = [sink EXCEPT ![s].stringbuffer = sink'[s].stringbuffer]
                 /\ Extends(sink[s].stringbuffer, sink'[s].stringbuffer)]_vars

\* C13 witness: two records were written before any done(); the buffer holds
\* fragments, no transport call was made and the session is Unconnected.
C13_Witness ==
    \E s \in Sinks :
        /\ Len(written[s]) = 2 /\ doneCalls[s] = 0
        /\ Len(sink[s].stringbuffer) >= 2
        /\ transportLog[s] = <<>> /\ session[s] = "Unconnected"

\* C14: the configuration fields of a sink always hold the values given at
\* construction.
C14_ConfigurationFixed ==
    \A s \in Sinks :
        /\ sink[s].host = ctor[s].host /\ sink[s].port = ctor[s].port
        /\ sink[s].use_ssl = ctor[s].use_ssl
        /\ sink[s].username = ctor[s].credentials[1]
        /\ sink[s].password = ctor[s].credentials[2]
        /\ sink[s].subject = ctor[s].subject /\ sink[s].sender = ctor[s].sender
        /\ sink[s].to = ctor[s].to
        /\ sink[s].body = ctor[s].body

\* C15: whenever the close step of a done() call failed, that done() call
\* returns normally.
C15_CloseFailureSwallowed ==
    \A s \in Sinks :
        (Ended(s) /\ Called(s, "quit", Failures)) => outcome[s] = "returned"

SessionMoves ==
    { <<"Unconnected", "Connected">>, <<"Connected", "Authenticated">>,
      <<"Connected", "Closed">>, <<"Authenticated", "Closed">> }

\* the transport call the step makes on the session of s, if it makes one
Made(s, op) ==
    /\ Len(transportLog'[s]) = Len(transportLog[s]) + 1
    /\ transportLog'[s][Len(transportLog'[s])].op = op

\* C16: within a done() call the session only moves Unconnected -> Connected
\* -> (Authenticated) -> Closed; the send is made on a Connected session and,
\* in secure mode, on an Authenticated one; the close comes after the send
\* attempt; no transport call is made on a Closed session.
C16_SessionOrdering ==
    [][\A s \in Sinks :
          /\ (session'[s] # session[s] /\ doneCalls'[s] = doneCalls[s])
                 => <<session[s], session'[s]>> \in SessionMoves
          /\ Len(transportLog'[s]) > Len(transportLog[s])
                 => session[s] # "Closed"
          /\ Made(s, "connect") => session[s] = "Unconnected"
          /\ Made(s, "login") => session[s] = "Connected"
          /\ Made(s, "sendmail")
                 => session[s] = (IF ctor[s].use_ssl THEN "Authenticated"
                                  ELSE "Connected")
          /\ Made(s, "quit") => Called(s, "sendmail", TransportResults)]_vars

\* C16 witness: a done() in secure mode has connected, logged in, sent and
\* closed, in that order.
C16_Witness ==
    \E s \in Sinks :
        /\ ctor[s].use_ssl /\ outcome[s] = "returned" /\ session[s] = "Closed"
        /\ [i \in 1..Len(transportLog[s]) |-> transportLog[s][i].op]
               = <<"connect", "login", "sendmail", "quit">>

\* number of calls of op the latest done() made
Count(s, op) ==
    Cardinality({i \in 1..Len(transportLog[s]) : transportLog[s][i].op = op})

\* C17: a done() call makes at most one connect, one login, one send and one
\* close, whatever their outcomes.
C17_NoRetry ==
    \A s \in Sinks :
        \A op \in {"connect", "login", "sendmail", "quit"} : Count(s, op) <= 1

\* C17 witness: a done() whose send failed has ended after a single connect,
\* a single send and a single close.
C17_Witness ==
    \E s \in Sinks :
        /\ Ended(s) /\ Called(s, "sendmail", {"SMTPException"})
        /\ Count(s, "connect") = 1 /\ Count(s, "sendmail") = 1
        /\ Count(s, "quit") = 1 /\ Len(transportLog[s]) = 3

\* the step makes no call on sink s and none is in progress on it
Untouched(s) ==
    written'[s] = written[s] /\ doneCalls'[s] = doneCalls[s] /\ call.s # s

\* C19: a step that belongs to no call on sink s changes nothing of s (buffer,
\* configuration, session, message), and the body a done() on s builds is
\* determined by the records written to s alone.  Checked under SpecPair.
C19_SinksIndependent ==
    [][\A s \in Sinks :
          /\ Untouched(s)
                 => /\ sink'[s] = sink[s] /\ ctor'[s] = ctor[s]
                    /\ session'[s] = session[s] /\ message'[s] = message[s]
                    /\ transportLog'[s] = transportLog[s]
                    /\ outcome'[s] = outcome[s] /\ logged'[s] = logged[s]
          /\ doneCalls'[s] # doneCalls[s]
                 => message'[s].Body =
                        IF Renderings(written[s]) = <<>> THEN ctor[s].body
                        ELSE Concat(Renderings(written[s]))]_vars

\* C19 witness: both sinks were written to and both had their done(); each
\* message body is the rendering of its own sink's record.
C19_Witness ==
    /\ Sinks = {1, 2}
    /\ written[1] = <<Dict(<< <<"a", PyInt(1)>> >>)>>
    /\ written[2] = <<Dict(<< <<"b", PyInt(2)>> >>)>>
    /\ Ended(1) /\ Ended(2)
    /\ message[1].Body = Text(<<"1">>)
    /\ message[2].Body = Text(<<"2">>)

(***************************************************************************)
(* Properties of AzLogProfileMissingActivityTypeEvent, checked under       *)
(* SpecEval.                                                               *)
(***************************************************************************)
HasKey(d, key) == \E i \in 1..Len(d.dict) : d.dict[i][1] = key

\* record has a com section that is a mapping with cloud_type 'azure' and
\* record_type 'log_profile'
DiscriminatorsMatch(rec) ==
    /\ HasKey(rec, "com")
    /\ IsDict(Get(rec, "com"))
    /\ Get(Get(rec, "com"), "cloud_type") = Str("azure")
    /\ Get(Get(rec, "com"), "record_type") = Str("log_profile")

\* record has a raw section holding a categories list
HasCategories(rec) ==
    /\ HasKey(rec, "raw")
    /\ IsDict(Get(rec, "raw"))
    /\ IsList(Get(Get(rec, "raw"), "categories"))

CategoriesOf(rec) ==
    LET cs == Get(Get(rec, "raw"), "categories").list
    IN {cs[i] : i \in 1..Len(cs)}

RequiredCategories == <<Str("Write"), Str("Delete"), Str("Action")>>

\* the required categories absent from the record's categories, in the
\* fixed order
MissingCategories(rec) ==
    LET absent(c) == c \notin CategoriesOf(rec)
    IN SelectSeq(RequiredCategories, absent)

Mentions(text, word) == \E i \in 1..Len(text.str) : text.str[i] = word.str[1]

\* the yielded events are one event per missing category, in the fixed order,
\* each naming its category, and the generator ended without raising
YieldsMissingCategories ==
    LET missing == MissingCategories(record)
        com == Get(record, "com")
        ext == GetOr(record, "ext", Dict(<<>>))
    IN /\ evalOutcome = "exhausted"
       /\ Len(events) = Len(missing)
       /\ \A i \in 1..Len(missing) :
              /\ events[i] = GetLogProfileActivityEvent(com, ext, missing[i])
              /\ Mentions(Get(Get(events[i], "com"), "description"), missing[i])
              /\ \A j \in 1..Len(RequiredCategories) :
                     RequiredCategories[j] # missing[i]
                         => ~Mentions(Get(Get(events[i], "com"), "description"),
                                      RequiredCategories[j])

\* C8 as stated: for a record whose discriminators match and whose raw
\* section holds a categories list, eval yields exactly one event for each
\* required category absent from the list, in the order Write, Delete, Action.
C8_Original ==
    (evalCalls > 0 /\ DiscriminatorsMatch(record) /\ HasCategories(record))
        => YieldsMissingCategories

\* C8 amended: the same, for records whose ext section is absent or a
\* mapping (not null).
C8_MissingActivityRule ==
    (evalCalls > 0 /\ DiscriminatorsMatch(record) /\ HasCategories(record)
        /\ (~HasKey(record, "ext") \/ IsDict(Get(record, "ext"))))
        => YieldsMissingCategories

\* C8 witness: categories = [Read, Write] has yielded two events, Delete then
\* Action.
C8_Witness ==
    /\ evalCalls > 0
    /\ DiscriminatorsMatch(record)
    /\ HasCategories(record)
    /\ Get(Get(record, "raw"), "categories") = List(<<Str("Read"), Str("Write")>>)
    /\ Len(events) = 2
    /\ Mentions(Get(Get(events[1], "com"), "description"), Str("Delete"))
    /\ Mentions(Get(Get(events[2], "com"), "description"), Str("Action"))

\* C9: for a record with no com section, a null com section, or a com section
\* whose cloud_type is not 'azure' or whose record_type is not 'log_profile',
\* eval yields nothing and raises nothing.
C9_NonApplicability ==
    (evalCalls > 0 /\ ~DiscriminatorsMatch(record))
        => (events = <<>> /\ evalOutcome = "exhausted")

\* C9 witness: an azure record of another record_type, with an ext section and
\* with no category enabled, was evaluated and yielded nothing.
C9_Witness ==
    /\ evalCalls > 0
    /\ HasKey(record, "com") /\ IsDict(Get(record, "com"))
    /\ Get(Get(record, "com"), "cloud_type") = Str("azure")
    /\ Get(Get(record, "com"), "record_type") = Str("vm")
    /\ IsDict(Get(record, "ext"))
    /\ HasCategories(record) /\ CategoriesOf(record) = {}
    /\ events = <<>> /\ evalOutcome = "exhausted"

\* the section is missing, null or empty
Blank(rec, key) == Get(rec, key) \in {None, Dict(<<>>)}

\* C10: for a record whose discriminators match and whose ext or raw section
\* is missing, null or empty, or whose raw section has no categories entry,
\* eval yields nothing and raises nothing.
C10_MissingSectionsNotFatal ==
    (evalCalls > 0 /\ DiscriminatorsMatch(record)
        /\ (Blank(record, "ext") \/ Blank(record, "raw")
            \/ ~HasKey(Get(record, "raw"), "categories")))
        => (events = <<>> /\ evalOutcome = "exhausted")

\* the keys of a dict, in iteration order
Keys(d) == [i \in 1..Len(d.dict) |-> d.dict[i][1]]

KeySet(d) == {d.dict[i][1] : i \in 1..Len(d.dict)}

\* the ext mapping of event is the ext mapping of the input record (empty
\* when the record has none) with only record_type overridden
ExtPropagated(event, rec) ==
    LET in == GetOr(rec, "ext", Dict(<<>>))
        out == Get(event, "ext")
    IN /\ IsDict(out)
       /\ KeySet(out) = KeySet(in) \cup {"record_type"}
       /\ Get(out, "record_type") = EventRecordType
       /\ \A k \in KeySet(in) \ {"record_type"} : Get(out, k) = Get(in, k)

Populated(text) == IsStr(text) /\ Len(text.str) > 0

\* C20: every event record eval yields has com.record_type and
\* ext.record_type 'log_profile_missing_activity_type_event', the input's
\* com.cloud_type and com.reference, and a description and a recommendation
\* that are populated and name the missing category of that event.
C20_EventRecordShape ==
    evalCalls > 0 =>
        \A i \in 1..Len(events) :
            LET com == Get(events[i], "com")
                ext == Get(events[i], "ext")
                category == MissingCategories(record)[i]
                type == Str("log_profile_missing_activity_type_event")
            IN /\ Get(com, "record_type") = type
               /\ Get(ext, "record_type") = type
               /\ Get(com, "cloud_type") = Get(Get(record, "com"), "cloud_type")
               /\ Get(com, "reference") = Get(Get(record, "com"), "reference")
               /\ Populated(Get(com, "description"))
               /\ Populated(Get(com, "recommendation"))
               /\ Mentions(Get(com, "description"), category)
               /\ Mentions(Get(com, "recommendation"), category)

\* C20 witness: a record with a reference and no category enabled has yielded
\* its third event, for Action, carrying the reference.
C20_Witness ==
    /\ evalCalls > 0 /\ Len(events) = 3
    /\ Get(Get(events[3], "com"), "reference")
           = Str("/subscriptions/s1/logprofiles/default")
    /\ Get(Get(events[3], "com"), "description")
           = Text(<<"Azure", " log profile ",
                    "/subscriptions/s1/logprofiles/default",
                    " has is not enabled for ", "Action", " activity.">>)

====
